---- MODULE Spec2Model ----
(***************************************************************************)
(* Launch go/no-go decision logic of backend/decide.py.                    *)
(*                                                                         *)
(* Quantities are integers in the source's units (kn, mm, ft, degrees C).  *)
(* A ratio test  x / limit >= r  is evaluated by cross-multiplication in   *)
(* tenths, and a test  x > limit * r  likewise; for integer-valued x and   *)
(* limit this agrees with the IEEE-754 evaluation of the Python            *)
(* expressions (the rounding error of 0.6, 0.7, 0.8 is far below 1/limit). *)
(* Strings built by f-strings are modelled by their constant template; the *)
(* explanation string is the sequence of its sentences and "; " separators.*)
(***************************************************************************)
EXTENDS Integers, Sequences, FiniteSets, TLC

VARIABLES pc, site_code, weather, space_weather, conjunction, fetch, result

vars == <<pc, site_code, weather, space_weather, conjunction, fetch, result>>

(***************************************************************************)
(* Bounds of the input grids.                                              *)
(***************************************************************************)
MaxWind == 5
MaxPrecip == 5
MaxCloudStep == 3
MaxTempStep == 4
MaxKpStep == 3
MaxCloseApproaches == 1

WindVals == 0..MaxWind
PrecipVals == 0..MaxPrecip
CloudVals == {1000 * k : k \in 0..MaxCloudStep}
TempVals == {5 * k - 5 : k \in 0..MaxTempStep}
KpVals == {2 * k + 1 : k \in 0..MaxKpStep}
CloseVals == 0..MaxCloseApproaches

WeatherObservations ==
    [wind_speed_kn : WindVals, precipitation_mm : PrecipVals,
     cloud_ceiling_ft : CloudVals, temperature_c : TempVals]

SpaceWeatherObservations == [kp_index : KpVals, has_solar_storm : BOOLEAN]

ConjunctionAssessments == [has_high_risk : BOOLEAN, close_approaches : CloseVals]

(***************************************************************************)
(* The site registry (sites.py): site code -> lat, lon, limits.            *)
(***************************************************************************)
LAUNCH_SITES ==
    [sc \in {"KSC", "VAFB"} |->
        IF sc = "KSC"
        THEN [lat |-> 28, lon |-> -80,
              limits |-> [max_wind_kn |-> 5, max_precipitation_mm |-> 1,
                          max_cloud_ceiling_ft |-> 1500,
                          max_temp_c |-> 10, min_temp_c |-> 0]]
        ELSE [lat |-> 34, lon |-> -120,
              limits |-> [max_wind_kn |-> 4, max_precipitation_mm |-> 4,
                          max_cloud_ceiling_ft |-> 3500,
                          max_temp_c |-> 15, min_temp_c |-> -5]]]

SiteCodes == DOMAIN LAUNCH_SITES \cup {"XXX"}

None == [none |-> TRUE]

Fetches == {"get_weather", "get_space_weather", "get_conjunction_risk"}

(***************************************************************************)
(* Arithmetic helpers.                                                     *)
(***************************************************************************)
\* x / limit >= tenths/10, for limit > 0
RatioGE(x, limit, tenths) == 10 * x >= tenths * limit

\* x > limit * (tenths/10)
AboveFraction(x, limit, tenths) == 10 * x > tenths * limit

Min(a, b) == IF a <= b THEN a ELSE b

(***************************************************************************)
(* calculate_risk_score, factor group by factor group.                     *)
(***************************************************************************)
wind_points(w, limits) ==
    IF RatioGE(w.wind_speed_kn, limits.max_wind_kn, 10) THEN 40
    ELSE IF RatioGE(w.wind_speed_kn, limits.max_wind_kn, 8) THEN 20
    ELSE IF RatioGE(w.wind_speed_kn, limits.max_wind_kn, 6) THEN 10
    ELSE 0

precip_points(w, limits) ==
    IF RatioGE(w.precipitation_mm, limits.max_precipitation_mm, 50) THEN 50
    ELSE IF RatioGE(w.precipitation_mm, limits.max_precipitation_mm, 20) THEN 35
    ELSE IF RatioGE(w.precipitation_mm, limits.max_precipitation_mm, 10) THEN 25
    ELSE IF RatioGE(w.precipitation_mm, limits.max_precipitation_mm, 7) THEN 15
    ELSE 0

\* fault variant of cloud_points: the site-limit band is tested first
cloud_points_lowfirst(w, limits) ==
    IF w.cloud_ceiling_ft < limits.max_cloud_ceiling_ft THEN 10
    ELSE IF w.cloud_ceiling_ft < 3000 THEN 20
    ELSE IF w.cloud_ceiling_ft < 2000 THEN 30
    ELSE IF w.cloud_ceiling_ft < 1000 THEN 40
    ELSE 0

cloud_points(w, limits) ==
    IF w.cloud_ceiling_ft < 1000 THEN 40
    ELSE IF w.cloud_ceiling_ft < 2000 THEN 30
    ELSE IF w.cloud_ceiling_ft < 3000 THEN 20
    ELSE IF w.cloud_ceiling_ft < limits.max_cloud_ceiling_ft THEN 10
    ELSE 0

temp_points(w, limits) ==
    LET temp == w.temperature_c IN
    IF temp > limits.max_temp_c \/ temp < limits.min_temp_c THEN 25
    ELSE IF temp > limits.max_temp_c - 5 \/ temp < limits.min_temp_c + 5 THEN 10
    ELSE 0

kp_points(sw) ==
    LET kp == sw.kp_index IN
    IF kp >= 7 THEN 30
    ELSE IF kp >= 5 THEN 15
    ELSE IF kp >= 3 THEN 5
    ELSE 0

storm_points(sw) == IF sw.has_solar_storm THEN 20 ELSE 0

conjunction_points(c) ==
    IF c.has_high_risk THEN 40
    ELSE IF c.close_approaches > 0 THEN 10
    ELSE 0

\* fault variant of calculate_risk_score: the sum is returned unclamped
calculate_risk_score_unclamped(w, sw, c, limits) ==
    wind_points(w, limits) + precip_points(w, limits) + cloud_points(w, limits)
      + temp_points(w, limits) + kp_points(sw) + storm_points(sw)
      + conjunction_points(c)

calculate_risk_score(w, sw, c, limits) ==
    LET score == wind_points(w, limits) + precip_points(w, limits)
                   + cloud_points(w, limits) + temp_points(w, limits)
                   + kp_points(sw) + storm_points(sw) + conjunction_points(c)
    IN Min(score, 100)

(***************************************************************************)
(* determine_verdict                                                       *)
(***************************************************************************)
\* fault variant of determine_verdict: thresholds compared with >
determine_verdict_exclusive(risk_score) ==
    IF risk_score > 70 THEN "NO-GO"
    ELSE IF risk_score > 40 THEN "MARGINAL"
    ELSE "GO"

determine_verdict(risk_score) ==
    IF risk_score >= 70 THEN "NO-GO"
    ELSE IF risk_score >= 40 THEN "MARGINAL"
    ELSE "GO"

(***************************************************************************)
(* generate_explanation                                                    *)
(***************************************************************************)
WindSentence == "Wind speed {wind_speed_kn:.1f} kn approaching limit {max_wind_kn} kn"
PrecipSentence == "Precipitation {precipitation_mm:.1f} mm near limit {max_precipitation_mm} mm"
CloudSentence == "Cloud ceiling {cloud_ceiling_ft:.0f} ft below limit {max_cloud_ceiling_ft} ft"
TempHighSentence == "Temperature {temperature_c:.1f}C approaching upper limit"
TempLowSentence == "Temperature {temperature_c:.1f}C approaching lower limit"
KpSentence == "Elevated Kp index at {kp_index:.0f} (geomagnetic storm conditions)"
StormSentence == "Active solar storm detected"
ConjunctionSentence == "High debris conjunction risk detected"
ExplanationSentinel == "All parameters within acceptable limits for launch"
Separator == "; "

\* issues.append(s) when the condition holds
AppendIf(seq, cond, s) == IF cond THEN Append(seq, s) ELSE seq

\* sep.join(issues), as the sequence of its pieces
RECURSIVE Join(_)
Join(issues) ==
    IF Len(issues) = 0 THEN <<>>
    ELSE IF Len(issues) = 1 THEN <<issues[1]>>
    ELSE <<issues[1], Separator>> \o Join(Tail(issues))

\* fault variant of wind_issue: the threshold itself triggers
wind_issue_inclusive(w, limits) == RatioGE(w.wind_speed_kn, limits.max_wind_kn, 8)

\* lines 101 and 145
wind_issue(w, limits) == AboveFraction(w.wind_speed_kn, limits.max_wind_kn, 8)

\* lines 104 and 148
precip_issue(w, limits) == AboveFraction(w.precipitation_mm, limits.max_precipitation_mm, 5)

explanation_issues(w, sw, c, limits) ==
    LET i1 == AppendIf(<<>>, wind_issue(w, limits), WindSentence)
        i2 == AppendIf(i1, precip_issue(w, limits), PrecipSentence)
        i3 == AppendIf(i2, w.cloud_ceiling_ft < limits.max_cloud_ceiling_ft, CloudSentence)
        i4 == AppendIf(i3, w.temperature_c > limits.max_temp_c - 5, TempHighSentence)
        i5 == AppendIf(i4, w.temperature_c < limits.min_temp_c + 5, TempLowSentence)
        i6 == AppendIf(i5, sw.kp_index >= 5, KpSentence)
        i7 == AppendIf(i6, sw.has_solar_storm, StormSentence)
        i8 == AppendIf(i7, c.has_high_risk, ConjunctionSentence)
    IN i8

\* fault variant of generate_explanation: no sentinel for an empty issue list
generate_explanation_nosentinel(w, sw, c, limits, risk_score) ==
    Join(explanation_issues(w, sw, c, limits))

generate_explanation(w, sw, c, limits, risk_score) ==
    LET issues == explanation_issues(w, sw, c, limits) IN
    IF issues = <<>> THEN <<ExplanationSentinel>> ELSE Join(issues)

(***************************************************************************)
(* get_rule_citations                                                      *)
(***************************************************************************)
CloudCitation == "NASA-STD-4010A 4.1.8 (Thick Cloud Layers)"
WindCitation == "Vehicle SOP: Pad Wind Limit {max_wind_kn} kn"
PrecipCitation == "NASA-STD-4010A 4.1.10 (Precipitation)"
KpCitation == "SWPC Kp advisory - Geomagnetic Storm Watch"
ColaCitation == "COLA (Collision Avoidance) Analysis - High Risk"
CitationSentinel == "All parameters nominal"

get_rule_citations(w, sw, c, limits) ==
    LET c1 == AppendIf(<<>>, w.cloud_ceiling_ft < limits.max_cloud_ceiling_ft, CloudCitation)
        c2 == AppendIf(c1, wind_issue(w, limits), WindCitation)
        c3 == AppendIf(c2, precip_issue(w, limits), PrecipCitation)
        c4 == AppendIf(c3, sw.kp_index >= 5, KpCitation)
        c5 == AppendIf(c4, c.has_high_risk, ColaCitation)
    IN IF c5 = <<>> THEN <<CitationSentinel>> ELSE c5

(***************************************************************************)
(* make_decision: an async function, one action per stretch between await  *)
(* points.  fetch[f] is the status of the call of f: not_started,          *)
(* in_flight, returned or raised.  An exception raised by an awaited fetch *)
(* is not caught: it leaves make_decision, whose locals are dropped.       *)
(***************************************************************************)
Init ==
    /\ pc = "idle"
    /\ site_code = None
    /\ weather = None
    /\ space_weather = None
    /\ conjunction = None
    /\ fetch = [f \in Fetches |-> "not_started"]
    /\ result = None

error_record ==
    [verdict |-> "ERROR", risk_score |-> 100,
     why |-> <<"Unknown launch site: {site_code}">>, rule_citations |-> <<>>]

\* fault variant of make_decision: get_weather is called before the site check
make_decision_fetch_first(sc) ==
    /\ pc = "idle"
    /\ site_code' = sc
    /\ fetch' = [fetch EXCEPT !["get_weather"] = "in_flight"]
    /\ IF sc \notin DOMAIN LAUNCH_SITES
       THEN result' = error_record /\ pc' = "returned"
       ELSE result' = result /\ pc' = "await_get_weather"
    /\ UNCHANGED <<weather, space_weather, conjunction>>

\* lines 174-186: the site check, then the call of get_weather
make_decision(sc) ==
    /\ pc = "idle"
    /\ site_code' = sc
    /\ IF sc \notin DOMAIN LAUNCH_SITES
       THEN /\ result' = error_record
            /\ pc' = "returned"
            /\ UNCHANGED fetch
       ELSE /\ fetch' = [fetch EXCEPT !["get_weather"] = "in_flight"]
            /\ pc' = "await_get_weather"
            /\ UNCHANGED result
    /\ UNCHANGED <<weather, space_weather, conjunction>>

\* line 186 resumes with the weather record, line 187 calls get_space_weather
get_weather_returns(w) ==
    /\ pc = "await_get_weather"
    /\ weather' = w
    /\ fetch' = [fetch EXCEPT !["get_weather"] = "returned",
                              !["get_space_weather"] = "in_flight"]
    /\ pc' = "await_get_space_weather"
    /\ UNCHANGED <<site_code, space_weather, conjunction, result>>

\* fault variant of get_weather_raises: the failure is swallowed and a default
\* observation substituted
get_weather_raises_default ==
    /\ pc = "await_get_weather"
    /\ weather' = [wind_speed_kn |-> 0, precipitation_mm |-> 0,
                   cloud_ceiling_ft |-> 1000 * MaxCloudStep, temperature_c |-> 5]
    /\ fetch' = [fetch EXCEPT !["get_weather"] = "raised",
                              !["get_space_weather"] = "in_flight"]
    /\ pc' = "await_get_space_weather"
    /\ UNCHANGED <<site_code, space_weather, conjunction, result>>

\* line 186: the awaited get_weather raises
get_weather_raises ==
    /\ pc = "await_get_weather"
    /\ fetch' = [fetch EXCEPT !["get_weather"] = "raised"]
    /\ pc' = "raised"
    /\ UNCHANGED <<site_code, weather, space_weather, conjunction, result>>

\* line 187 resumes, line 188 calls get_conjunction_risk
get_space_weather_returns(sw) ==
    /\ pc = "await_get_space_weather"
    /\ space_weather' = sw
    /\ fetch' = [fetch EXCEPT !["get_space_weather"] = "returned",
                              !["get_conjunction_risk"] = "in_flight"]
    /\ pc' = "await_get_conjunction_risk"
    /\ UNCHANGED <<site_code, weather, conjunction, result>>

\* line 187: the awaited get_space_weather raises
get_space_weather_raises ==
    /\ pc = "await_get_space_weather"
    /\ fetch' = [fetch EXCEPT !["get_space_weather"] = "raised"]
    /\ weather' = None
    /\ pc' = "raised"
    /\ UNCHANGED <<site_code, space_weather, conjunction, result>>

\* the decision record of lines 190-206
decision_record(w, sw, c, limits) ==
    LET risk_score == calculate_risk_score(w, sw, c, limits) IN
    [verdict |-> determine_verdict(risk_score),
     risk_score |-> risk_score,
     why |-> generate_explanation(w, sw, c, limits, risk_score),
     rule_citations |-> get_rule_citations(w, sw, c, limits),
     data |-> [weather |-> w, space_weather |-> sw, conjunction |-> c]]

\* line 188 resumes, lines 190-206 score and return
get_conjunction_risk_returns(c) ==
    /\ pc = "await_get_conjunction_risk"
    /\ conjunction' = c
    /\ fetch' = [fetch EXCEPT !["get_conjunction_risk"] = "returned"]
    /\ result' = decision_record(weather, space_weather, c, LAUNCH_SITES[site_code].limits)
    /\ pc' = "returned"
    /\ UNCHANGED <<site_code, weather, space_weather>>

\* line 188: the awaited get_conjunction_risk raises
get_conjunction_risk_raises ==
    /\ pc = "await_get_conjunction_risk"
    /\ fetch' = [fetch EXCEPT !["get_conjunction_risk"] = "raised"]
    /\ weather' = None
    /\ space_weather' = None
    /\ pc' = "raised"
    /\ UNCHANGED <<site_code, conjunction, result>>

Next ==
    \/ \E sc \in SiteCodes : make_decision(sc)
    \/ \E w \in WeatherObservations : get_weather_returns(w)
    \/ get_weather_raises
    \/ \E sw \in SpaceWeatherObservations : get_space_weather_returns(sw)
    \/ get_space_weather_raises
    \/ \E c \in ConjunctionAssessments : get_conjunction_risk_returns(c)
    \/ get_conjunction_risk_raises

Spec == Init /\ [][Next]_vars

(***************************************************************************)
(* Properties.  Decided: make_decision has returned a decision record for  *)
(* a known site; the record's data field holds the inputs it was computed  *)
(* from.                                                                   *)
(***************************************************************************)
Decided == pc = "returned" /\ site_code \in DOMAIN LAUNCH_SITES

Limits == LAUNCH_SITES[site_code].limits

Range(seq) == {seq[i] : i \in 1..Len(seq)}

AwaitStates == {"await_get_weather", "await_get_space_weather", "await_get_conjunction_risk"}

\* The band ladders of the scorer as the specification states them: an
\* ordered list of (band condition, points), the first matching band wins.
FirstMatch(bands) ==
    IF \E i \in 1..Len(bands) : bands[i][1]
    THEN bands[CHOOSE i \in 1..Len(bands) :
                  bands[i][1] /\ \A j \in 1..(i - 1) : ~ bands[j][1]][2]
    ELSE 0

WindBand(w, l) ==
    FirstMatch(<< <<10 * w.wind_speed_kn >= 10 * l.max_wind_kn, 40>>,
                  <<10 * w.wind_speed_kn >= 8 * l.max_wind_kn, 20>>,
                  <<10 * w.wind_speed_kn >= 6 * l.max_wind_kn, 10>> >>)

PrecipBand(w, l) ==
    FirstMatch(<< <<w.precipitation_mm >= 5 * l.max_precipitation_mm, 50>>,
                  <<w.precipitation_mm >= 2 * l.max_precipitation_mm, 35>>,
                  <<w.precipitation_mm >= l.max_precipitation_mm, 25>>,
                  <<10 * w.precipitation_mm >= 7 * l.max_precipitation_mm, 15>> >>)

CloudBand(w, l) ==
    FirstMatch(<< <<w.cloud_ceiling_ft < 1000, 40>>,
                  <<w.cloud_ceiling_ft < 2000, 30>>,
                  <<w.cloud_ceiling_ft < 3000, 20>>,
                  <<w.cloud_ceiling_ft < l.max_cloud_ceiling_ft, 10>> >>)

TempBand(w, l) ==
    FirstMatch(<< <<w.temperature_c \notin l.min_temp_c..l.max_temp_c, 25>>,
                  <<w.temperature_c \notin (l.min_temp_c + 5)..(l.max_temp_c - 5), 10>> >>)

KpBand(sw) ==
    FirstMatch(<< <<sw.kp_index >= 7, 30>>, <<sw.kp_index >= 5, 15>>,
                  <<sw.kp_index >= 3, 5>> >>)

StormBand(sw) == FirstMatch(<< <<sw.has_solar_storm, 20>> >>)

ConjunctionBand(c) ==
    FirstMatch(<< <<c.has_high_risk, 40>>, <<c.close_approaches > 0, 10>> >>)

BandSum(w, sw, c, l) ==
    WindBand(w, l) + PrecipBand(w, l) + CloudBand(w, l) + TempBand(w, l)
      + KpBand(sw) + StormBand(sw) + ConjunctionBand(c)

\* C1: the risk score of every decision is an integer in [0,100] and equals
\* min(100, sum of the points of the seven band ladders).
C1_ScoreIsClampedBandSum ==
    Decided =>
        /\ result.risk_score \in 0..100
        /\ result.risk_score =
              Min(100, BandSum(weather, space_weather, conjunction, Limits))

\* a decision whose band sum exceeds 100 and was clamped
C1_Witness ==
    /\ Decided
    /\ BandSum(weather, space_weather, conjunction, Limits) > 100
    /\ result.risk_score = 100

Severity(v) == CASE v = "GO" -> 0 [] v = "MARGINAL" -> 1 [] v = "NO-GO" -> 2

PartitionAt40And70 ==
    \A s \in 0..100 :
        /\ determine_verdict(s) = "GO" <=> s < 40
        /\ determine_verdict(s) = "MARGINAL" <=> (40 <= s /\ s < 70)
        /\ determine_verdict(s) = "NO-GO" <=> s >= 70

VerdictMonotonic ==
    \A s, t \in 0..100 :
        s <= t => Severity(determine_verdict(s)) <= Severity(determine_verdict(t))

\* C2: determine_verdict partitions the scores 0..100 at 40 and 70 (GO below
\* 40, MARGINAL from 40 to 69, NO-GO from 70), is monotonic in the score, and
\* every decision's verdict is that partition's value at its risk score.
C2_VerdictPartition ==
    /\ PartitionAt40And70
    /\ VerdictMonotonic
    /\ Decided =>
          /\ result.verdict = "GO" <=> result.risk_score < 40
          /\ result.verdict = "MARGINAL" <=> result.risk_score \in 40..69
          /\ result.verdict = "NO-GO" <=> result.risk_score >= 70

\* a decision scored exactly at the boundary 40, classified MARGINAL
C2_Witness == Decided /\ result.risk_score = 40 /\ result.verdict = "MARGINAL"

\* C3: a call with a site code outside the registry returns verdict ERROR,
\* risk score 100 and no citations, and starts none of the three fetches.
C3_UnknownSiteShortCircuits ==
    (pc # "idle" /\ site_code \notin DOMAIN LAUNCH_SITES) =>
        /\ pc = "returned"
        /\ result.verdict = "ERROR"
        /\ result.risk_score = 100
        /\ result.rule_citations = <<>>
        /\ \A f \in Fetches : fetch[f] = "not_started"
        /\ weather = None /\ space_weather = None /\ conjunction = None

C3_Witness == pc = "returned" /\ site_code = "XXX" /\ result.verdict = "ERROR"

\* C4: for a known site a decision record exists only once all three fetches
\* have returned, and it is computed from exactly the fetched records; when a
\* fetch raises, the call ends raised with no record at all.
C4_NoPartialDecision ==
    /\ (pc # "returned") => result = None
    /\ Decided =>
          /\ \A f \in Fetches : fetch[f] = "returned"
          /\ result.data = [weather |-> weather, space_weather |-> space_weather,
                            conjunction |-> conjunction]
    /\ (\E f \in Fetches : fetch[f] = "raised") => (pc = "raised" /\ result = None)
    /\ pc = "raised" => \E f \in Fetches : fetch[f] = "raised"

\* the second fetch failed after the first had returned
C4_Witness ==
    /\ pc = "raised"
    /\ fetch["get_weather"] = "returned"
    /\ fetch["get_space_weather"] = "raised"
    /\ result = None

\* C5: whenever make_decision is suspended waiting for a fetch, all three
\* fetches have already been started.
C5_AllStartedBeforeAnyWait ==
    pc \in AwaitStates => \A f \in Fetches : fetch[f] # "not_started"

Score(w, sw, c) == calculate_risk_score(w, sw, c, Limits)

\* how far a temperature lies outside the allowed range [min, max]
TempExcess(t, l) ==
    IF t > l.max_temp_c THEN t - l.max_temp_c
    ELSE IF t < l.min_temp_c THEN l.min_temp_c - t
    ELSE 0

\* C6: with all other inputs and the limits fixed, the score never drops when
\* wind, precipitation, Kp or the close-approach count is raised, the cloud
\* ceiling is lowered, has_solar_storm or has_high_risk turns true, or the
\* temperature moves further outside the allowed range.
C6_ScoreMonotonic ==
    Decided =>
        LET w == weather
            sw == space_weather
            c == conjunction
            base == result.risk_score
        IN /\ \A x \in WindVals : x >= w.wind_speed_kn =>
                  Score([w EXCEPT !.wind_speed_kn = x], sw, c) >= base
           /\ \A x \in PrecipVals : x >= w.precipitation_mm =>
                  Score([w EXCEPT !.precipitation_mm = x], sw, c) >= base
           /\ \A x \in CloudVals : x <= w.cloud_ceiling_ft =>
                  Score([w EXCEPT !.cloud_ceiling_ft = x], sw, c) >= base
           /\ \A x \in TempVals :
                  TempExcess(x, Limits) > TempExcess(w.temperature_c, Limits) =>
                  Score([w EXCEPT !.temperature_c = x], sw, c) >= base
           /\ \A x \in KpVals : x >= sw.kp_index =>
                  Score(w, [sw EXCEPT !.kp_index = x], c) >= base
           /\ Score(w, [sw EXCEPT !.has_solar_storm = TRUE], c) >= base
           /\ Score(w, sw, [c EXCEPT !.has_high_risk = TRUE]) >= base
           /\ \A x \in CloseVals : x >= c.close_approaches =>
                  Score(w, sw, [c EXCEPT !.close_approaches = x]) >= base

\* an unclamped decision from which lowering the ceiling, raising the wind and
\* setting the high-risk flag each strictly raise the score
C6_Witness ==
    /\ Decided
    /\ result.risk_score < 100
    /\ \E x \in CloudVals :
          /\ x < weather.cloud_ceiling_ft
          /\ Score([weather EXCEPT !.cloud_ceiling_ft = x], space_weather, conjunction)
                > result.risk_score
    /\ \E x \in WindVals :
          /\ x > weather.wind_speed_kn
          /\ Score([weather EXCEPT !.wind_speed_kn = x], space_weather, conjunction)
                > result.risk_score
    /\ ~ conjunction.has_high_risk
    /\ Score(weather, space_weather, [conjunction EXCEPT !.has_high_risk = TRUE])
          > result.risk_score

\* The issue and citation conditions, in evaluation order, with their entries.
IssueTable(w, sw, c, l) ==
    << <<10 * w.wind_speed_kn > 8 * l.max_wind_kn, WindSentence>>,
       <<10 * w.precipitation_mm > 5 * l.max_precipitation_mm, PrecipSentence>>,
       <<w.cloud_ceiling_ft < l.max_cloud_ceiling_ft, CloudSentence>>,
       <<w.temperature_c > l.max_temp_c - 5, TempHighSentence>>,
       <<w.temperature_c < l.min_temp_c + 5, TempLowSentence>>,
       <<sw.kp_index >= 5, KpSentence>>,
       <<sw.has_solar_storm, StormSentence>>,
       <<c.has_high_risk, ConjunctionSentence>> >>

CitationTable(w, sw, c, l) ==
    << <<w.cloud_ceiling_ft < l.max_cloud_ceiling_ft, CloudCitation>>,
       <<10 * w.wind_speed_kn > 8 * l.max_wind_kn, WindCitation>>,
       <<10 * w.precipitation_mm > 5 * l.max_precipitation_mm, PrecipCitation>>,
       <<sw.kp_index >= 5, KpCitation>>,
       <<c.has_high_risk, ColaCitation>> >>

Triggered(table) == SelectSeq(table, LAMBDA p : p[1])

\* C7: explanation and citations are never empty; the explanation is exactly
\* the sentinel iff none of the eight issue conditions holds and the citation
\* list is exactly the one-element sentinel list iff none of the five citation
\* conditions holds; otherwise each holds the triggered entries only, in
\* evaluation order (the explanation's joined by "; "), without the sentinel.
C7_SentinelIffNothingTriggered ==
    Decided =>
        LET issues == Triggered(IssueTable(weather, space_weather, conjunction, Limits))
            cites == Triggered(CitationTable(weather, space_weather, conjunction, Limits))
            n == Len(issues)
            m == Len(cites)
            why == result.why
            rc == result.rule_citations
        IN /\ Len(why) > 0
           /\ Len(rc) > 0
           /\ (why = <<ExplanationSentinel>>) <=> (n = 0)
           /\ (rc = <<CitationSentinel>>) <=> (m = 0)
           /\ n > 0 =>
                 /\ Len(why) = 2 * n - 1
                 /\ \A i \in 1..n : why[2 * i - 1] = issues[i][2]
                 /\ \A i \in 1..(n - 1) : why[2 * i] = Separator
           /\ m > 0 =>
                 /\ Len(rc) = m
                 /\ \A i \in 1..m : rc[i] = cites[i][2]

\* two issues joined in the explanation while the citation list is the sentinel
C7_Witness ==
    /\ Decided
    /\ result.why = <<TempHighSentence, Separator, StormSentence>>
    /\ result.rule_citations = <<CitationSentinel>>

\* C8 as stated: the wind and precipitation triggers include the threshold
\* itself (wind >= 0.8 x limit, precipitation >= 0.5 x limit).
C8_TriggersInclusive ==
    Decided =>
        /\ 10 * weather.wind_speed_kn >= 8 * Limits.max_wind_kn =>
              /\ WindSentence \in Range(result.why)
              /\ WindCitation \in Range(result.rule_citations)
        /\ 10 * weather.precipitation_mm >= 5 * Limits.max_precipitation_mm =>
              /\ PrecipSentence \in Range(result.why)
              /\ PrecipCitation \in Range(result.rule_citations)

\* C8 (amended): the wind and precipitation triggers are strict: the wind
\* sentence and the pad-wind-limit citation are emitted iff wind > 0.8 x
\* max_wind_kn, the precipitation sentence and citation iff precipitation >
\* 0.5 x max_precipitation_mm; at exact equality neither is emitted.
C8_TriggersStrict ==
    Decided =>
        /\ WindSentence \in Range(result.why)
              <=> 10 * weather.wind_speed_kn > 8 * Limits.max_wind_kn
        /\ WindCitation \in Range(result.rule_citations)
              <=> 10 * weather.wind_speed_kn > 8 * Limits.max_wind_kn
        /\ PrecipSentence \in Range(result.why)
              <=> 10 * weather.precipitation_mm > 5 * Limits.max_precipitation_mm
        /\ PrecipCitation \in Range(result.rule_citations)
              <=> 10 * weather.precipitation_mm > 5 * Limits.max_precipitation_mm

\* wind exactly at 0.8 x limit: neither the sentence nor the citation, while
\* precipitation above half its limit has both
C8_Witness ==
    /\ Decided
    /\ 10 * weather.wind_speed_kn = 8 * Limits.max_wind_kn
    /\ WindSentence \notin Range(result.why)
    /\ WindCitation \notin Range(result.rule_citations)
    /\ PrecipSentence \in Range(result.why)
    /\ PrecipCitation \in Range(result.rule_citations)

\* C9: for every factor (wind, precipitation, cloud ceiling, temperature, Kp,
\* solar storm, conjunction), points in the score imply the factor's sentence
\* in the explanation of the same decision.
C9_ExplanationCoversEveryScoredFactor ==
    Decided =>
        /\ wind_points(weather, Limits) > 0 => WindSentence \in Range(result.why)
        /\ precip_points(weather, Limits) > 0 => PrecipSentence \in Range(result.why)
        /\ cloud_points(weather, Limits) > 0 => CloudSentence \in Range(result.why)
        /\ temp_points(weather, Limits) > 0 =>
              (TempHighSentence \in Range(result.why) \/ TempLowSentence \in Range(result.why))
        /\ kp_points(space_weather) > 0 => KpSentence \in Range(result.why)
        /\ storm_points(space_weather) > 0 => StormSentence \in Range(result.why)
        /\ conjunction_points(conjunction) > 0 => ConjunctionSentence \in Range(result.why)

\* C10: every decision's verdict is determine_verdict of its risk score, and a
\* MARGINAL or NO-GO decision never carries the sentinel explanation nor the
\* sentinel citation list.
C10_NonGoNamesAnIssue ==
    Decided =>
        /\ result.verdict = determine_verdict(result.risk_score)
        /\ result.verdict \in {"MARGINAL", "NO-GO"} =>
              /\ result.why # <<ExplanationSentinel>>
              /\ result.rule_citations # <<CitationSentinel>>

====
